---- MODULE Spec2Model ----
(***************************************************************************)
(* Model of the multi-fidelity evaluation framework of artificial_landscapes*)
(* (src/src/mfso.rs, src/src/mfb.rs) and of Interval (src/src/lib.rs).      *)
(*                                                                         *)
(* u64 values are kept at their width: a u64 is a tuple of 8 base-256      *)
(* limbs, least significant first, and products are taken modulo 2^64 with *)
(* the overflow reported beside them.  f64 inputs are records with a NaN  *)
(* flag over an integer grid; f64 arithmetic of the error models is done   *)
(* at precision (53-bit mantissa, round to nearest even); the values of    *)
(* the benchmark formulas (exp, sin, ln ...) are kept as terms naming the  *)
(* formula, the tier and the point.                                        *)
(***************************************************************************)
EXTENDS Integers, Sequences, FiniteSets, TLC

VARIABLES
    build,      \* "checked": overflow-checks on (u64 overflow panics); "wrapping": off
    obj,        \* the constructed multi-fidelity function (kind and configuration)
    outs,       \* the Outputs values returned by evaluate so far, in call order
    lastEval,   \* the last evaluate call: its point and whether it returned
    mc,         \* results of max_cost(): closed form, and the trait's default
    nzArgs,     \* the arguments handed to NonZeroU64::new_unchecked so far
    status,     \* "running", "panicked" (panic!/assert!/index), "aborted" (UB check)
    iv,         \* the last Interval::new call and its result
    re3,        \* the last ResolutionError3 call and its result
    em          \* the error-injection framework: the inputs drawn and the result

vars == <<build, obj, outs, lastEval, mc, nzArgs, status, iv, re3, em>>

---------------------------------------------------------------------------
(* Bounds of the model *)

MaxFidelity == 4
MaxOutputs == 1
MaxPullsAfterEnd == 2
MaxAbs == 5
PhiDelta == 1
MaxDim == 2

---------------------------------------------------------------------------
(* 64-bit unsigned integers *)

RECURSIVE Limbs(_, _)
Limbs(n, k) == IF k = 0 THEN <<>> ELSE <<n % 256>> \o Limbs(n \div 256, k - 1)

\* a small natural number as a u64
U64(n) == Limbs(n, 8)

Zero64 == U64(0)
Two32 == <<0, 0, 0, 0, 1, 0, 0, 0>>
Two63Plus1 == <<1, 0, 0, 0, 0, 0, 0, 128>>

RECURSIVE ColSum(_, _, _, _)
\* the sum of a[i] * b[j] over the limb positions i + j = k (positions from 0)
ColSum(a, b, k, i) ==
    IF i > 7 THEN 0
    ELSE (IF k - i >= 0 /\ k - i <= 7 THEN a[i + 1] * b[k - i + 1] ELSE 0)
         + ColSum(a, b, k, i + 1)

RECURSIVE MulLimbs(_, _, _, _)
\* the limbs k..15 of the full 128-bit product a * b
MulLimbs(a, b, k, carry) ==
    IF k > 15 THEN <<>>
    ELSE LET s == ColSum(a, b, k, 0) + carry
         IN <<s % 256>> \o MulLimbs(a, b, k + 1, s \div 256)

\* u64 multiplication: the product modulo 2^64, and whether it overflowed
Mul64(a, b) ==
    LET p == MulLimbs(a, b, 0, 0)
    IN [val |-> SubSeq(p, 1, 8),
        ovf |-> \E k \in 9..16 : p[k] # 0]

RECURSIVE U64LtFrom(_, _, _)
U64LtFrom(a, b, k) ==
    IF k = 0 THEN FALSE
    ELSE IF a[k] # b[k] THEN a[k] < b[k]
    ELSE U64LtFrom(a, b, k - 1)

U64Lt(a, b) == U64LtFrom(a, b, 8)
U64Le(a, b) == a = b \/ U64Lt(a, b)

RECURSIVE PowLoop(_, _, _, _)
\* the loop of u64::pow (exponentiation by squaring); ovf is sticky
PowLoop(base, acc, exp, ovf) ==
    LET m1 == Mul64(acc, base)
        acc1 == IF exp % 2 = 1 THEN m1.val ELSE acc
        ovf1 == ovf \/ (exp % 2 = 1 /\ m1.ovf)
        sq == Mul64(base, base)
    IN IF exp % 2 = 1 /\ exp = 1 THEN [val |-> acc1, ovf |-> ovf1]
       ELSE PowLoop(sq.val, acc1, exp \div 2, ovf1 \/ sq.ovf)

\* u64::pow(self, exp): the power modulo 2^64 and whether a product overflowed
PowBySquaring(c, exp) ==
    IF exp = 0 THEN [val |-> U64(1), ovf |-> FALSE]
    ELSE PowLoop(c, U64(1), exp, FALSE)

---------------------------------------------------------------------------
(* f64 values and Interval (src/src/lib.rs) *)

\* an f64 input: NaN, or a number (v counts hundredths; 1/128ths in fidelity levels)
F(v) == [nan |-> FALSE, v |-> v]
NaN == [nan |-> TRUE, v |-> 0]

\* the f64 comparison a <= b: false when either side is NaN
F64Le(a, b) == ~a.nan /\ ~b.nan /\ a.v <= b.v
\* the f64 comparison a < b
F64Lt(a, b) == ~a.nan /\ ~b.nan /\ a.v < b.v

\* Option values: None is <<>>, Some(x) is <<x>>
None == <<>>
Some(x) == <<x>>

Interval_new_unchecked(min, max) == [min |-> min, max |-> max]

Interval_new_strict(min, max) ==
    IF F64Lt(min, max) THEN Some([min |-> min, max |-> max]) ELSE None

Interval_new(min, max) ==
    IF F64Le(min, max) THEN Some([min |-> min, max |-> max]) ELSE None

Interval_min(i) == i.min
Interval_max(i) == i.max

---------------------------------------------------------------------------
(* The concrete multi-fidelity functions (src/src/mfso.rs) *)

ZERO_TO_ONE == Interval_new_unchecked(F(0), F(100))
ONE == U64(1)
TEN == U64(10)

TwoFidelityKinds == {"CurrinExponential", "Park", "Borehole"}
HartmannKinds == {"Hartmann3d", "Hartmann6d"}

\* the cost factors the model constructs the functions with:
\* 1, 10 (the default), 2^32 (its square is 0 modulo 2^64) and 2^63 + 1
\* (its square is 1 modulo 2^64)
CostFactors == {ONE, TEN, Two32, Two63Plus1}

Builds == {"checked", "wrapping"}

\* the largest max_fidelity (NonZeroU8)
U8_MAX == 255

\* u64::pow for the cost factors and exponents of the model, computed once
PowTable ==
    {<<a[1], a[2], PowBySquaring(a[1], a[2])>> :
        a \in (CostFactors \X (0..(MaxFidelity + 1))) \cup ({ONE} \X (0..U8_MAX))}

Pow(c, exp) == (CHOOSE t \in PowTable : t[1] = c /\ t[2] = exp)[3]

\* what a NonZeroU64::new_unchecked(0) may show as: the pair with cost 0, the
\* niche value of Option (no element), or the abort of a precondition check
UBOutcomes == {"zero", "none", "abort"}

TwoFidelity_new(kind, cost_factor) ==
    [kind |-> kind, cost_factor |-> cost_factor, max_fidelity |-> 0]

Hartmann_new(kind, max_fidelity, cost_factor) ==
    [kind |-> kind, cost_factor |-> cost_factor, max_fidelity |-> max_fidelity]

Objects ==
    {TwoFidelity_new(k, c) : k \in TwoFidelityKinds, c \in CostFactors}
    \cup {Hartmann_new(k[1], k[2], c) :
            k \in HartmannKinds \X (1..MaxFidelity), c \in CostFactors}

input_domain(o) ==
    CASE o.kind = "CurrinExponential" -> <<ZERO_TO_ONE, ZERO_TO_ONE>>
      [] o.kind = "Park" -> <<ZERO_TO_ONE, ZERO_TO_ONE, ZERO_TO_ONE, ZERO_TO_ONE>>
      [] o.kind = "Borehole" ->
            <<Interval_new_unchecked(F(5), F(15)),
              Interval_new_unchecked(F(10000), F(5000000)),
              Interval_new_unchecked(F(6307000), F(11560000)),
              Interval_new_unchecked(F(99000), F(111000)),
              Interval_new_unchecked(F(6310), F(11600)),
              Interval_new_unchecked(F(70000), F(82000)),
              Interval_new_unchecked(F(112000), F(168000)),
              Interval_new_unchecked(F(985500), F(1204500))>>
      [] o.kind = "Hartmann3d" -> <<ZERO_TO_ONE, ZERO_TO_ONE, ZERO_TO_ONE>>
      [] o.kind = "Hartmann6d" ->
            <<ZERO_TO_ONE, ZERO_TO_ONE, ZERO_TO_ONE,
              ZERO_TO_ONE, ZERO_TO_ONE, ZERO_TO_ONE>>

dimension(o) == Len(input_domain(o))

\* the domain's minimum corner, as the default max_cost collects it
MinCorner(o) == [i \in 1..dimension(o) |-> Interval_min(input_domain(o)[i])]

\* the points evaluate is called with: the minimum corner, the same point with
\* its last coordinate missing, and with one coordinate too many
Points(o) ==
    {MinCorner(o),
     SubSeq(MinCorner(o), 1, dimension(o) - 1),
     Append(MinCorner(o), F(0))}

\* the value of a formula: a term naming the formula, the tier m it was
\* computed for, alpha's multiplier and the coordinates it read
Term(fn, m, mult, xs, n) ==
    [panic |-> FALSE,
     value |-> [fn |-> fn, m |-> m, mult |-> mult, xs |-> SubSeq(xs, 1, n)]]
Panicked == [panic |-> TRUE, value |-> <<>>]

\* xs[0] .. xs[n - 1] are all in bounds
Readable(xs, n) == n <= Len(xs)

CurrinExponential_f2(xs) ==
    IF Readable(xs, 2) THEN Term("f2", 0, 0, xs, 2) ELSE Panicked

CurrinExponential_f1(xs) ==
    IF Readable(xs, 2) THEN Term("f1", 0, 0, xs, 2) ELSE Panicked

Park_f2(xs) ==
    IF Readable(xs, 4) THEN Term("f2", 0, 0, xs, 4) ELSE Panicked

\* f1 reads xs[0..2] and then calls f2(xs), which reads xs[3]
Park_f1(xs) ==
    IF Readable(xs, 3) /\ ~Park_f2(xs).panic THEN Term("f1", 0, 0, xs, 4)
    ELSE Panicked

Borehole_f2(xs) ==
    IF Readable(xs, 8) THEN Term("f2", 0, 0, xs, 8) ELSE Panicked

Borehole_f1(xs) ==
    IF Readable(xs, 8) THEN Term("f1", 0, 0, xs, 8) ELSE Panicked

\* u8 subtraction a - b: panics on underflow when checked, else wraps
SubU8(a, b) ==
    IF a >= b THEN [panic |-> FALSE, val |-> a - b]
    ELSE IF build = "checked" THEN [panic |-> TRUE, val |-> 0]
    ELSE [panic |-> FALSE, val |-> a - b + 256]

\* u8 addition a + b: panics on overflow when checked, else wraps
AddU8(a, b) ==
    IF a + b <= 255 THEN [panic |-> FALSE, val |-> a + b]
    ELSE IF build = "checked" THEN [panic |-> TRUE, val |-> 0]
    ELSE [panic |-> FALSE, val |-> (a + b) % 256]

\* the multiplier of DELTA[i] in alpha: max_fidelity - m
Hartmann_alpha(this, m) == SubU8(this.max_fidelity, m)

\* Hartmann3d::f and Hartmann6d::f: alpha(m, i), then xs[0 .. d-1]
Hartmann_f(this, m, xs) ==
    LET a == Hartmann_alpha(this, m)
    IN IF a.panic \/ ~Readable(xs, dimension(this)) THEN Panicked
       ELSE Term("f", m, a.val, xs, dimension(this))

\* the cost of the first (low-fidelity) pair of a two-fidelity function
FirstCost(o) == IF o.kind = "Park" THEN TEN ELSE ONE

f1(o, xs) ==
    CASE o.kind = "CurrinExponential" -> CurrinExponential_f1(xs)
      [] o.kind = "Park" -> Park_f1(xs)
      [] o.kind = "Borehole" -> Borehole_f1(xs)

f2(o, xs) ==
    CASE o.kind = "CurrinExponential" -> CurrinExponential_f2(xs)
      [] o.kind = "Park" -> Park_f2(xs)
      [] o.kind = "Borehole" -> Borehole_f2(xs)

Pair(c, v) == [cost |-> c, value |-> v]

\* evaluate of CurrinExponential, Park and Borehole: both formulas are
\* computed while the two iter::once values are built
TwoFidelity_evaluate(o, xs) ==
    LET r1 == f1(o, xs)
        r2 == f2(o, xs)
    IN IF r1.panic \/ r2.panic THEN [panic |-> TRUE, out |-> <<>>]
       ELSE [panic |-> FALSE,
             out |-> [iter |-> "chain", this |-> o, xs |-> xs,
                      items |-> <<Pair(FirstCost(o), r1.value),
                                  Pair(o.cost_factor, r2.value)>>,
                      start |-> 0, end |-> 2,
                      hist |-> <<>>, evals |-> <<r1.value, r2.value>>]]

Hartmann_evaluate_inclusive(o, xs) ==
    [panic |-> FALSE,
     out |-> [iter |-> "map", this |-> o, xs |-> xs, items |-> <<>>,
              start |-> 0, end |-> o.max_fidelity + 1,
              hist |-> <<>>, evals |-> <<>>]]

\* evaluate of Hartmann3d and Hartmann6d: the point and the object are
\* copied and the range 0..max_fidelity is mapped lazily
Hartmann_evaluate(o, xs) ==
    [panic |-> FALSE,
     out |-> [iter |-> "map", this |-> o, xs |-> xs, items |-> <<>>,
              start |-> 0, end |-> o.max_fidelity,
              hist |-> <<>>, evals |-> <<>>]]

evaluate(o, xs) ==
    IF o.kind \in TwoFidelityKinds THEN TwoFidelity_evaluate(o, xs)
    ELSE Hartmann_evaluate(o, xs)

---------------------------------------------------------------------------
(* Outputs: the iterators behind it, and next() *)

\* what one next() gives: the iterator afterwards, the Option it returned,
\* how the call ended ("" normally) and the new_unchecked arguments it made
Step(o, res, fatal, args) == [out |-> o, res |-> res, fatal |-> fatal, args |-> args]

ClosureCostOffByOne(this, m) == Pow(this.cost_factor, m + 1)

\* the cost computed by the closure of Hartmann's evaluate for range item m
ClosureCost(this, m) == Pow(this.cost_factor, m)

\* Chain<Once, Once>::next
ChainNext(o) ==
    IF o.start < o.end
    THEN Step([o EXCEPT !.start = o.start + 1], Some(o.items[o.start + 1]), "", {})
    ELSE Step(o, None, "", {})

\* Map<Range<u8>, closure>::next: the range steps first, then the closure
\* computes the value of tier m + 1 and the cost cost_factor^m
MapNext(o, ub) ==
    IF o.start >= o.end THEN Step(o, None, "", {})
    ELSE LET m == o.start
             o1 == [o EXCEPT !.start = m + 1]
             t == AddU8(m, 1)
             v == IF t.panic THEN Panicked ELSE Hartmann_f(o.this, t.val, o.xs)
             o2 == [o1 EXCEPT !.evals = Append(@, v.value)]
             c == ClosureCost(o.this, m)
         IN IF v.panic THEN Step(o1, None, "panicked", {})
            ELSE IF c.ovf /\ build = "checked" THEN Step(o2, None, "panicked", {})
            ELSE IF c.val = Zero64
                 THEN CASE ub = "zero" ->
                             Step(o2, Some(Pair(c.val, v.value)), "", {c.val})
                        [] ub = "none" -> Step(o2, None, "", {c.val})
                        [] ub = "abort" -> Step(o2, None, "aborted", {c.val})
            ELSE Step(o2, Some(Pair(c.val, v.value)), "", {c.val})

\* Outputs::next: the boxed iterator's next; hist keeps what it returned
Outputs_next(o, ub) ==
    LET r == IF o.iter = "chain" THEN ChainNext(o) ELSE MapNext(o, ub)
    IN IF r.fatal # "" THEN r
       ELSE [r EXCEPT !.out.hist = Append(@, r.res)]

\* the closed-form max_cost of CurrinExponential, Park and Borehole
TwoFidelity_max_cost(o) == Step(o, Some(o.cost_factor), "", {})

\* the closed-form max_cost of Hartmann3d and Hartmann6d
Hartmann_max_cost(o, ub) ==
    LET c == Pow(o.cost_factor, o.max_fidelity)
    IN IF c.ovf /\ build = "checked" THEN Step(o, None, "panicked", {})
       ELSE IF c.val = Zero64 /\ ub = "abort" THEN Step(o, None, "aborted", {c.val})
       ELSE Step(o, Some(c.val), "", {c.val})

RECURSIVE Iterator_last(_, _, _)
\* Iterator::last on an Outputs: pull until no element and keep the last
\* pair; gives every way the drain can end (one per outcome of each
\* new_unchecked(0) met): the last pair, how it ended, the arguments made
Iterator_last(o, last, args) ==
    LET r0 == Outputs_next(o, "zero")
        ubs == IF Zero64 \in r0.args THEN UBOutcomes ELSE {"zero"}
    IN UNION {
         LET r == Outputs_next(o, ub)
         IN IF r.fatal # ""
            THEN {[last |-> None, fatal |-> r.fatal, args |-> args \cup r.args]}
            ELSE IF r.res # None
            THEN Iterator_last(r.out, r.res, args \cup r.args)
            ELSE {[last |-> last, fatal |-> "", args |-> args]}
         : ub \in ubs }

\* the default max_cost of the trait: evaluate at the domain's minimum corner,
\* take the last pair's cost, panic when there is no pair
default_max_cost(o) ==
    LET e == evaluate(o, MinCorner(o))
    IN IF e.panic THEN {Step(o, None, "panicked", {})}
       ELSE { IF d.fatal # "" THEN Step(o, None, d.fatal, d.args)
              ELSE IF d.last = None THEN Step(o, None, "panicked", d.args)
              ELSE Step(o, Some(d.last[1].cost), "", d.args)
              : d \in Iterator_last(e.out, None, {}) }

max_cost(o, ub) ==
    IF o.kind \in TwoFidelityKinds THEN TwoFidelity_max_cost(o)
    ELSE Hartmann_max_cost(o, ub)

---------------------------------------------------------------------------
(* The calls a user of the library makes *)

Idle == <<>>

\* obj.evaluate(xs)
EvaluateWithin(xs, n) ==
    /\ status = "running"
    /\ Len(outs) < n
    /\ LET e == evaluate(obj, xs)
       IN IF e.panic
          THEN /\ status' = "panicked"
               /\ lastEval' = Some([xs |-> xs, returned |-> FALSE])
               /\ outs' = outs
          ELSE /\ status' = status
               /\ lastEval' = Some([xs |-> xs, returned |-> TRUE])
               /\ outs' = Append(outs, e.out)
    /\ UNCHANGED <<build, obj, mc, nzArgs, iv, re3, em>>

Evaluate(xs) == EvaluateWithin(xs, MaxOutputs)

\* outs[i].next()
Pull(i, ub) ==
    /\ status = "running"
    /\ i \in DOMAIN outs
    /\ Len(outs[i].hist) < outs[i].end + MaxPullsAfterEnd
    /\ LET r == Outputs_next(outs[i], ub)
       IN /\ outs' = [outs EXCEPT ![i] = r.out]
          /\ nzArgs' = nzArgs \cup r.args
          /\ status' = IF r.fatal # "" THEN r.fatal ELSE status
    /\ UNCHANGED <<build, obj, lastEval, mc, iv, re3, em>>

\* obj.max_cost(), the function's own closed form
MaxCost(ub) ==
    /\ status = "running"
    /\ mc.closed = None
    /\ LET r == max_cost(obj, ub)
       IN /\ mc' = [mc EXCEPT !.closed = r.res]
          /\ nzArgs' = nzArgs \cup r.args
          /\ status' = IF r.fatal # "" THEN r.fatal ELSE status
    /\ UNCHANGED <<build, obj, outs, lastEval, iv, re3, em>>

\* obj.max_cost() as the trait's default computes it
DefaultMaxCost ==
    /\ status = "running"
    /\ mc.dflt = None
    /\ \E r \in default_max_cost(obj) :
          /\ mc' = [mc EXCEPT !.dflt = r.res]
          /\ nzArgs' = nzArgs \cup r.args
          /\ status' = IF r.fatal # "" THEN r.fatal ELSE status
    /\ UNCHANGED <<build, obj, outs, lastEval, iv, re3, em>>

Init ==
    /\ build \in Builds
    /\ obj \in Objects
    /\ outs = <<>>
    /\ lastEval = None
    /\ mc = [closed |-> None, dflt |-> None]
    /\ nzArgs = {}
    /\ status = "running"
    /\ iv = Idle
    /\ re3 = Idle
    /\ em = Idle

Next ==
    \/ \E xs \in Points(obj) : Evaluate(xs)
    \/ \E i \in 1..MaxOutputs, ub \in UBOutcomes : Pull(i, ub)
    \/ \E ub \in UBOutcomes : MaxCost(ub)
    \/ DefaultMaxCost

Spec == Init /\ [][Next]_vars

\* evaluate and next() alone, with one more Outputs alive than in Spec
NextPair ==
    \/ \E xs \in Points(obj) : EvaluateWithin(xs, MaxOutputs + 1)
    \/ \E i \in 1..(MaxOutputs + 1), ub \in UBOutcomes : Pull(i, ub)

SpecPair == Init /\ [][NextPair]_vars

\* one evaluate, and next() on its Outputs, on the Hartmann functions of
\* every max_fidelity of Spec and of the two largest ones, 254 and 255 (these
\* with cost_factor 1, whose powers stay in 64 bits)
InitTiers ==
    /\ build \in Builds
    /\ obj \in {o \in Objects : o.kind \in HartmannKinds}
               \cup {Hartmann_new(k, M, ONE) :
                       k \in HartmannKinds, M \in {U8_MAX - 1, U8_MAX}}
    /\ outs = <<>>
    /\ lastEval = None
    /\ mc = [closed |-> None, dflt |-> None]
    /\ nzArgs = {}
    /\ status = "running"
    /\ iv = Idle
    /\ re3 = Idle
    /\ em = Idle

NextTiers ==
    \/ \E xs \in Points(obj) : EvaluateWithin(xs, 1)
    \/ \E ub \in UBOutcomes : Pull(1, ub)

SpecTiers == InitTiers /\ [][NextTiers]_vars

---------------------------------------------------------------------------
(* Interval::new, called on its own *)

F64Samples == {NaN} \cup {F(v) : v \in (-MaxAbs)..MaxAbs}

\* Interval::new(min, max)
IntervalNew(min, max) ==
    /\ status = "running"
    /\ iv' = Some([min |-> min, max |-> max, result |-> Interval_new(min, max)])
    /\ UNCHANGED <<build, obj, outs, lastEval, mc, nzArgs, status, re3, em>>

InitInterval ==
    /\ build = "checked"
    /\ obj = TwoFidelity_new("CurrinExponential", TEN)
    /\ outs = <<>>
    /\ lastEval = None
    /\ mc = [closed |-> None, dflt |-> None]
    /\ nzArgs = {}
    /\ status = "running"
    /\ iv = Idle
    /\ re3 = Idle
    /\ em = Idle

NextInterval == \E min \in F64Samples, max \in F64Samples : IntervalNew(min, max)

SpecInterval == InitInterval /\ [][NextInterval]_vars

---------------------------------------------------------------------------
(* f64 arithmetic, at its precision: a finite f64 is neg, m, e with the    *)
(* value (-1)^neg * m * 2^e, m a natural number of at most 53 bits written *)
(* as its bits, least significant first, odd unless the value is zero.     *)
(* Every operation rounds its exact result to 53 bits, ties to even; the   *)
(* exponent range of f64 is not reached by the values of the model.        *)

RECURSIVE NatBits(_)
\* the bits of a small natural number
NatBits(n) == IF n = 0 THEN <<>> ELSE <<n % 2>> \o NatBits(n \div 2)

RECURSIVE BitsTrim(_)
BitsTrim(b) ==
    IF Len(b) = 0 \/ b[Len(b)] = 1 THEN b ELSE BitsTrim(SubSeq(b, 1, Len(b) - 1))

RECURSIVE LimbsToBits(_)
LimbsToBits(l) ==
    IF Len(l) = 0 THEN <<>>
    ELSE [i \in 1..8 |-> (l[1] \div (2 ^ (i - 1))) % 2] \o LimbsToBits(Tail(l))

RECURSIVE BitsToNat(_)
BitsToNat(b) == IF Len(b) = 0 THEN 0 ELSE b[1] + 2 * BitsToNat(Tail(b))

\* the 8 base-256 limbs of a natural number of at most 64 bits
BitsToLimbs(b) ==
    <<>> \o [k \in 1..8 |->
        BitsToNat([i \in 1..8 |-> IF 8 * (k - 1) + i <= Len(b) THEN b[8 * (k - 1) + i] ELSE 0])]

RECURSIVE BitsAddFrom(_, _, _, _)
BitsAddFrom(a, b, i, carry) ==
    IF i > Len(a) /\ i > Len(b) THEN (IF carry = 1 THEN <<1>> ELSE <<>>)
    ELSE LET s == (IF i <= Len(a) THEN a[i] ELSE 0) + (IF i <= Len(b) THEN b[i] ELSE 0) + carry
         IN <<s % 2>> \o BitsAddFrom(a, b, i + 1, s \div 2)

BitsAdd(a, b) == BitsAddFrom(a, b, 1, 0)

RECURSIVE BitsSubFrom(_, _, _, _)
BitsSubFrom(a, b, i, borrow) ==
    IF i > Len(a) THEN <<>>
    ELSE LET d == a[i] - (IF i <= Len(b) THEN b[i] ELSE 0) - borrow
         IN <<d % 2>> \o BitsSubFrom(a, b, i + 1, IF d < 0 THEN 1 ELSE 0)

\* a - b, for a >= b
BitsSub(a, b) == BitsTrim(BitsSubFrom(a, b, 1, 0))

RECURSIVE BitsLtFrom(_, _, _)
BitsLtFrom(a, b, i) ==
    IF i = 0 THEN FALSE
    ELSE IF a[i] # b[i] THEN a[i] < b[i]
    ELSE BitsLtFrom(a, b, i - 1)

\* a < b, for bits without leading zeros
BitsLt(a, b) == IF Len(a) # Len(b) THEN Len(a) < Len(b) ELSE BitsLtFrom(a, b, Len(a))

\* the product of two natural numbers of at most 64 bits
BitsMul(a, b) == BitsTrim(LimbsToBits(MulLimbs(BitsToLimbs(a), BitsToLimbs(b), 0, 0)))

BitsShl(m, s) == IF Len(m) = 0 THEN m ELSE [i \in 1..s |-> 0] \o m

FpZero == [e |-> 0, m |-> <<>>, neg |-> FALSE]

RECURSIVE FpNorm(_, _, _)
\* the record of (-1)^neg * m * 2^e, for m of at most 53 bits
FpNorm(neg, m, e) ==
    IF Len(m) = 0 THEN FpZero
    ELSE IF m[1] = 1 THEN [e |-> e, m |-> m, neg |-> neg]
    ELSE FpNorm(neg, Tail(m), e + 1)

\* the f64 nearest to (-1)^neg * m * 2^e, ties to the even mantissa
FpRound(neg, m, e) ==
    IF Len(m) <= 53 THEN FpNorm(neg, m, e)
    ELSE LET s == Len(m) - 53
             q == SubSeq(m, s + 1, Len(m))
             up == m[s] = 1 /\ (q[1] = 1 \/ \E i \in 1..(s - 1) : m[i] = 1)
         IN FpNorm(neg, IF up THEN BitsAdd(q, <<1>>) ELSE q, e + s)

\* an f64 literal, from the limbs of its mantissa and its exponent
FpLit(limbs, e) == FpNorm(FALSE, BitsTrim(LimbsToBits(limbs)), e)

\* the f64 of the integer n times 2^e, for |n| below 2^31
FpOf(n, e) == FpNorm(n < 0, NatBits(IF n < 0 THEN -n ELSE n), e)

FpNeg(x) == IF x = FpZero THEN x ELSE [x EXCEPT !.neg = ~x.neg]

FpMul(x, y) == FpRound(x.neg # y.neg, BitsMul(x.m, y.m), x.e + y.e)

FpAdd(x, y) ==
    IF x = FpZero THEN y
    ELSE IF y = FpZero THEN x
    ELSE LET e == IF x.e < y.e THEN x.e ELSE y.e
             xm == BitsShl(x.m, x.e - e)
             ym == BitsShl(y.m, y.e - e)
         IN IF x.neg = y.neg THEN FpRound(x.neg, BitsAdd(xm, ym), e)
            ELSE IF BitsLt(xm, ym) THEN FpRound(y.neg, BitsSub(ym, xm), e)
            ELSE FpRound(x.neg, BitsSub(xm, ym), e)

FpSub(x, y) == FpAdd(x, FpNeg(y))

FpLt(x, y) == FpSub(x, y).neg
FpLe(x, y) == x = y \/ FpLt(x, y)

\* the f64 literals of src/src/mfb.rs, as the compiler rounds them
F64_0_0 == FpLit(<<>>, 0) \* 0.0: 0x0.0p+0
F64_0_2 == FpLit(<<205, 204, 204, 204, 204, 204, 12>>, -54) \* 0.2: 0x1.999999999999ap-3
F64_0_4 == FpLit(<<205, 204, 204, 204, 204, 204, 12>>, -53) \* 0.4: 0x1.999999999999ap-2
F64_0_6 == FpLit(<<51, 51, 51, 51, 51, 51, 19>>, -53) \* 0.6: 0x1.3333333333333p-1
F64_0_8 == FpLit(<<205, 204, 204, 204, 204, 204, 12>>, -52) \* 0.8: 0x1.999999999999ap-1
F64_1_0 == FpLit(<<1>>, 0) \* 1.0: 0x1.0000000000000p+0
F64_1_2 == FpLit(<<51, 51, 51, 51, 51, 51, 19>>, -52) \* 1.2: 0x1.3333333333333p+0
F64_1_4 == FpLit(<<51, 51, 51, 51, 51, 51, 11>>, -51) \* 1.4: 0x1.6666666666666p+0
F64_1_6 == FpLit(<<205, 204, 204, 204, 204, 204, 12>>, -51) \* 1.6: 0x1.999999999999ap+0
F64_1_8 == FpLit(<<205, 204, 204, 204, 204, 204, 28>>, -52) \* 1.8: 0x1.ccccccccccccdp+0
F64_0_0002 == FpLit(<<45, 67, 28, 235, 226, 54, 26>>, -65) \* 0.0002: 0x1.a36e2eb1c432dp-13
F64_0_0001 == FpLit(<<45, 67, 28, 235, 226, 54, 26>>, -66) \* 0.0001: 0x1.a36e2eb1c432dp-14
F64_0_001 == FpLit(<<127, 106, 188, 116, 147, 24, 4>>, -60) \* 0.001: 0x1.0624dd2f1a9fcp-10
F64_0_1 == FpLit(<<205, 204, 204, 204, 204, 204, 12>>, -55) \* 0.1: 0x1.999999999999ap-4
F64_0_5 == FpLit(<<1>>, -1) \* 0.5: 0x1.0000000000000p-1
F64_10_0 == FpLit(<<5>>, 1) \* 10.0: 0x1.4000000000000p+3
PI == FpLit(<<163, 133, 136, 106, 63, 36, 3>>, -48) \* std::f64::consts::PI: 0x1.921fb54442d18p+1

---------------------------------------------------------------------------
(* ResolutionError3 (src/src/mfb.rs); a fidelity level phi is F(v) with v  *)
(* counting 1/128 (exact in f64), the results are f64 values               *)

\* the fidelity level n, a whole number
Level(n) == F(128 * n)

\* the f64 value of a fidelity level
FpPhi(phi) == FpOf(phi.v, -7)

Ok(v) == [panic |-> FALSE, value |-> v]

ResolutionError3_theta_clamping(phi) ==
    IF ~F64Le(Level(0), phi) THEN Panicked
    ELSE IF F64Lt(phi, Level(1000)) THEN Ok(FpSub(F64_1_0, FpMul(F64_0_0002, FpPhi(phi))))
    ELSE IF F64Lt(phi, Level(2000)) THEN Ok(F64_0_8)
    ELSE IF F64Lt(phi, Level(3000)) THEN Ok(FpSub(F64_1_2, FpMul(F64_0_0002, FpPhi(phi))))
    ELSE IF F64Lt(phi, Level(4000)) THEN Ok(F64_0_6)
    ELSE IF F64Lt(phi, Level(5000)) THEN Ok(FpSub(F64_1_4, FpMul(F64_0_0002, FpPhi(phi))))
    ELSE IF F64Lt(phi, Level(6000)) THEN Ok(F64_0_4)
    ELSE IF F64Lt(phi, Level(7000)) THEN Ok(FpSub(F64_1_6, FpMul(F64_0_0002, FpPhi(phi))))
    ELSE IF F64Lt(phi, Level(8000)) THEN Ok(F64_0_2)
    ELSE IF F64Lt(phi, Level(9000)) THEN Ok(FpSub(F64_1_8, FpMul(F64_0_0002, FpPhi(phi))))
    ELSE Ok(F64_0_0)

ResolutionError3_theta_shifted(phi) ==
    IF ~F64Le(Level(0), phi) THEN Panicked
    ELSE IF ~F64Lt(phi, Level(10000)) THEN Panicked
    ELSE IF F64Lt(phi, Level(1000)) THEN Ok(FpSub(F64_1_0, FpMul(F64_0_0002, FpPhi(phi))))
    ELSE IF F64Lt(phi, Level(2000)) THEN Ok(F64_0_8)
    ELSE IF F64Lt(phi, Level(3000)) THEN Ok(FpSub(F64_1_2, FpMul(F64_0_0002, FpPhi(phi))))
    ELSE IF F64Lt(phi, Level(4000)) THEN Ok(F64_0_6)
    ELSE IF F64Lt(phi, Level(5000)) THEN Ok(FpSub(F64_1_4, FpMul(F64_0_0002, FpPhi(phi))))
    ELSE IF F64Lt(phi, Level(6000)) THEN Ok(FpSub(F64_1_6, FpMul(F64_0_0002, FpPhi(phi))))
    ELSE IF F64Lt(phi, Level(7000)) THEN Ok(F64_0_4)
    ELSE IF F64Lt(phi, Level(8000)) THEN Ok(F64_0_2)
    ELSE IF F64Lt(phi, Level(9000)) THEN Ok(FpSub(F64_1_8, FpMul(F64_0_0002, FpPhi(phi))))
    ELSE Ok(F64_0_0)

\* ResolutionError3::theta: the two assertions, then the ten segments
ResolutionError3_theta(phi) ==
    IF ~F64Le(Level(0), phi) THEN Panicked
    ELSE IF ~F64Lt(phi, Level(10000)) THEN Panicked
    ELSE IF F64Lt(phi, Level(1000)) THEN Ok(FpSub(F64_1_0, FpMul(F64_0_0002, FpPhi(phi))))
    ELSE IF F64Lt(phi, Level(2000)) THEN Ok(F64_0_8)
    ELSE IF F64Lt(phi, Level(3000)) THEN Ok(FpSub(F64_1_2, FpMul(F64_0_0002, FpPhi(phi))))
    ELSE IF F64Lt(phi, Level(4000)) THEN Ok(F64_0_6)
    ELSE IF F64Lt(phi, Level(5000)) THEN Ok(FpSub(F64_1_4, FpMul(F64_0_0002, FpPhi(phi))))
    ELSE IF F64Lt(phi, Level(6000)) THEN Ok(F64_0_4)
    ELSE IF F64Lt(phi, Level(7000)) THEN Ok(FpSub(F64_1_6, FpMul(F64_0_0002, FpPhi(phi))))
    ELSE IF F64Lt(phi, Level(8000)) THEN Ok(F64_0_2)
    ELSE IF F64Lt(phi, Level(9000)) THEN Ok(FpSub(F64_1_8, FpMul(F64_0_0002, FpPhi(phi))))
    ELSE Ok(F64_0_0)

\* a = theta(phi)
ResolutionError3_a(x, phi) == ResolutionError3_theta(phi)

\* w = 10.0 * PI * theta(phi)
ResolutionError3_w(phi) ==
    LET t == ResolutionError3_theta(phi)
    IN IF t.panic THEN Panicked ELSE Ok(FpMul(FpMul(F64_10_0, PI), t.value))

\* b = 0.5 * PI * theta(phi)
ResolutionError3_b(phi) ==
    LET t == ResolutionError3_theta(phi)
    IN IF t.panic THEN Panicked ELSE Ok(FpMul(FpMul(F64_0_5, PI), t.value))

\* the fidelity levels tried: around every segment boundary, in the middle
\* of every segment, and NaN
PhiSamples ==
    {NaN}
    \cup {F(128000 * k + d) : k \in 0..10, d \in (-PhiDelta)..PhiDelta}
    \cup {F(128000 * k + 64000) : k \in 0..9}

XSamples == {F(0), F(100)}

\* the calls of theta, a, w and b tried on ResolutionError3
Res3CoefficientCalls ==
    {<<c, phi, <<>>>> : c \in {"theta", "w", "b"}, phi \in PhiSamples}
    \cup {<<"a", phi, <<x>>>> : phi \in PhiSamples, x \in XSamples}

\* the result of each of them, computed once
Res3CoefficientTable ==
    {<<c, CASE c[1] = "theta" -> ResolutionError3_theta(c[2])
            [] c[1] = "a" -> ResolutionError3_a(c[3][1], c[2])
            [] c[1] = "w" -> ResolutionError3_w(c[2])
            [] c[1] = "b" -> ResolutionError3_b(c[2])>> :
        c \in Res3CoefficientCalls}

Res3Coefficient(call, phi, xs) ==
    (CHOOSE t \in Res3CoefficientTable : t[1] = <<call, phi, xs>>)[2]

\* ResolutionError::error: the sum over the coordinates of xs of
\* a * cos(w * x + b + PI), kept as the sequence of its terms; a, w and b
\* are only computed for a coordinate, so an empty xs computes none
ResolutionError3_error(xs, phi) ==
    IF Len(xs) = 0 THEN Ok(<<>>)
    ELSE IF Res3Coefficient("a", phi, <<xs[1]>>).panic THEN Panicked
    ELSE Ok([i \in 1..Len(xs) |->
               [a |-> Res3Coefficient("a", phi, <<xs[i]>>).value,
                b |-> Res3Coefficient("b", phi, <<>>).value,
                w |-> Res3Coefficient("w", phi, <<>>).value,
                at |-> xs[i]]])

RECURSIVE SeqsUpTo(_, _)
SeqsUpTo(S, n) ==
    IF n = 0 THEN {<<>>}
    ELSE SeqsUpTo(S, n - 1)
         \cup {Append(q, x) : q \in {p \in SeqsUpTo(S, n - 1) : Len(p) = n - 1}, x \in S}

\* the calls tried on ResolutionError3
Res3Calls ==
    Res3CoefficientCalls
    \cup {<<"error", phi, xs>> : phi \in PhiSamples, xs \in SeqsUpTo(XSamples, MaxDim)}

Res3Apply(c) ==
    IF c[1] = "error" THEN ResolutionError3_error(c[3], c[2])
    ELSE Res3Coefficient(c[1], c[2], c[3])

\* the result of every call tried, computed once
Res3Table == {<<c, Res3Apply(c)>> : c \in Res3Calls}

Res3Result(call, phi, xs) == (CHOOSE t \in Res3Table : t[1] = <<call, phi, xs>>)[2]

\* one call on ResolutionError3
Called(call, phi, xs) ==
    /\ status = "running"
    /\ re3 = Idle
    /\ LET r == Res3Result(call, phi, xs)
       IN /\ re3' = Some([call |-> call, phi |-> phi, xs |-> xs, result |-> r])
          /\ status' = IF r.panic THEN "panicked" ELSE status
    /\ UNCHANGED <<build, obj, outs, lastEval, mc, nzArgs, iv, em>>

Theta3(phi) == Called("theta", phi, <<>>)
A3(x, phi) == Called("a", phi, <<x>>)
W3(phi) == Called("w", phi, <<>>)
B3(phi) == Called("b", phi, <<>>)
Error3(xs, phi) == Called("error", phi, xs)

NextRes3 ==
    \/ \E phi \in PhiSamples : Theta3(phi)
    \/ \E phi \in PhiSamples, x \in XSamples : A3(x, phi)
    \/ \E phi \in PhiSamples : W3(phi)
    \/ \E phi \in PhiSamples : B3(phi)
    \/ \E phi \in PhiSamples, xs \in SeqsUpTo(XSamples, MaxDim) : Error3(xs, phi)

InitRes3 == InitInterval

SpecRes3 == InitRes3 /\ [][NextRes3]_vars

---------------------------------------------------------------------------
(* InstabilityError (src/src/mfb.rs) *)

\* the fidelity levels tried on the instability errors
InstabilityPhis == {Level(0), Level(5000), F(128 * 10000 - 1), Level(10000)}

\* f64::exp at the arguments -0.001 * phi - 0.1 of InstabilityPhis
ExpTable ==
    {
     <<FpNeg(FpLit(<<205, 204, 204, 204, 204, 204, 12>>, -55)), FpLit(<<157, 149, 234, 204, 54, 122, 14>>, -52)>>,
     <<FpNeg(FpLit(<<51, 51, 51, 51, 51, 51, 10>>, -49)), FpLit(<<37, 141, 113, 188, 57, 62, 6>>, -58)>>,
     <<FpNeg(FpLit(<<129, 149, 67, 139, 204, 12, 5>>, -47)), FpLit(<<43, 155, 12, 204, 165, 137, 21>>, -67)>>,
     <<FpNeg(FpLit(<<51, 51, 51, 51, 51, 51, 20>>, -49)), FpLit(<<227, 154, 18, 197, 154, 137, 21>>, -67)>>
    }

F64_exp(x) == (CHOOSE t \in ExpTable : t[1] = x)[2]

\* some of the values rng.gen_range(0.0, 1.0) returns (the multiples of
\* 2^-52 in [0, 1)): 0, 2^-52, 1/16, 1/8, 1/2 and 1 - 2^-52
Draws ==
    {FpZero, FpOf(1, -52), FpOf(1, -4), FpOf(1, -3), FpOf(1, -1),
     FpLit(<<255, 255, 255, 255, 255, 255, 15>>, -52)}

InstabilityKinds == {"InstabilityError1", "InstabilityError2"}

\* InstabilityError1::p = 0.1 * (1.0 - 0.0001 * phi);
\* InstabilityError2::p = (-0.001 * phi - 0.1).exp()
InstabilityError_p(kind, phi) ==
    IF kind = "InstabilityError1"
    THEN FpMul(F64_0_1, FpSub(F64_1_0, FpMul(F64_0_0001, FpPhi(phi))))
    ELSE F64_exp(FpSub(FpMul(FpNeg(F64_0_001), FpPhi(phi)), F64_0_1))

\* l = (10 * xs.len()) as f64, in both variants
InstabilityError_l(kind, xs) == FpOf(10 * Len(xs), 0)

\* InstabilityError::error, with r the value the generator gives
InstabilityError_error(kind, xs, phi, r) ==
    IF FpLe(r, InstabilityError_p(kind, phi))
    THEN InstabilityError_l(kind, xs)
    ELSE F64_0_0

\* the result of every call tried, computed once
InstabilityTable ==
    {<<k, xs, phi, r, InstabilityError_error(k, xs, phi, r)>> :
        k \in InstabilityKinds, xs \in SeqsUpTo(XSamples, MaxDim),
        phi \in InstabilityPhis, r \in Draws}

InstabilityError(kind, xs, phi, r) ==
    /\ status = "running"
    /\ em' = Some([call |-> kind, phi |-> phi, xs |-> xs, r |-> r,
                   result |-> (CHOOSE t \in InstabilityTable :
                                  <<t[1], t[2], t[3], t[4]>> = <<kind, xs, phi, r>>)[5]])
    /\ UNCHANGED <<build, obj, outs, lastEval, mc, nzArgs, status, iv, re3>>

NextInstability ==
    \E kind \in InstabilityKinds, xs \in SeqsUpTo(XSamples, MaxDim),
       phi \in InstabilityPhis, r \in Draws : InstabilityError(kind, xs, phi, r)

SpecInstability == InitInterval /\ [][NextInstability]_vars

---------------------------------------------------------------------------
(* The cost models (src/src/mfb.rs) *)

U64_MAX == [k \in 1..8 |-> 255]

\* `x as u64` for a finite f64: towards zero, negative values to 0, values
\* of 2^64 and more to u64::MAX
F64_as_u64(x) ==
    IF x.neg \/ x = FpZero THEN Zero64
    ELSE IF x.e >= 0
         THEN (IF Len(x.m) + x.e > 64 THEN U64_MAX ELSE BitsToLimbs(BitsShl(x.m, x.e)))
    ELSE IF -x.e >= Len(x.m) THEN Zero64
    ELSE BitsToLimbs(SubSeq(x.m, 1 - x.e, Len(x.m)))

\* x.powi(4): two squarings
F64_powi4(x) == FpMul(FpMul(x, x), FpMul(x, x))

CostKinds == {"LinearCost", "NonLinearCost"}

\* LinearCost::cost = phi as u64 (NaN as u64 is 0)
LinearCost_cost(phi) ==
    IF phi.nan THEN Zero64 ELSE F64_as_u64(FpPhi(phi))

\* NonLinearCost::cost = (0.001 * phi).powi(4) as u64
NonLinearCost_cost(phi) ==
    IF phi.nan THEN Zero64 ELSE F64_as_u64(F64_powi4(FpMul(F64_0_001, FpPhi(phi))))

Cost_cost(kind, phi) ==
    IF kind = "LinearCost" THEN LinearCost_cost(phi) ELSE NonLinearCost_cost(phi)

\* the fidelity levels tried on the cost models
CostPhis ==
    PhiSamples \cup {F(128000 * k + 32000 * q) : k \in 0..9, q \in {1, 3}}

\* the result of every call tried, computed once
CostTable == {<<k, phi, Cost_cost(k, phi)>> : k \in CostKinds, phi \in CostPhis}

Cost(kind, phi) ==
    /\ status = "running"
    /\ em' = Some([call |-> kind, phi |-> phi,
                   result |-> (CHOOSE t \in CostTable : t[1] = kind /\ t[2] = phi)[3]])
    /\ UNCHANGED <<build, obj, outs, lastEval, mc, nzArgs, status, iv, re3>>

NextCost == \E kind \in CostKinds, phi \in CostPhis : Cost(kind, phi)

SpecCost == InitInterval /\ [][NextCost]_vars

---------------------------------------------------------------------------
(* Mfb, the error-injection objective (src/src/mfb.rs) *)

\* ModifiedRastrigin::new(dimensions): the domain [-1, 1] in every dimension
ModifiedRastrigin_new(dimensions) ==
    [kind |-> "ModifiedRastrigin",
     input_domain |-> [i \in 1..dimensions |-> Interval_new_unchecked(F(-100), F(100))]]

ResolutionKinds ==
    {"ResolutionError1", "ResolutionError2", "ResolutionError3", "ResolutionError4"}

\* the fidelity levels the level lists are made of
MfbLevels == {Level(0), Level(1000), Level(5000), Level(9999)}

\* Mfb::new(f, e, c, levels): the four fields, as given
Mfb_new(f, e, c, levels) == [f |-> f, e |-> e, c |-> c, levels |-> levels]

\* what the source defines on Mfb: the constructor, and the derived Debug;
\* `impl Objective for Mfb` (input_domain, evaluate) is commented out
Mfb_methods == {"new", "fmt"}

MfbNew(f, e, c, levels) ==
    /\ status = "running"
    /\ em' = Some([call |-> "Mfb::new", result |-> Mfb_new(f, e, c, levels),
                   methods |-> Mfb_methods])
    /\ UNCHANGED <<build, obj, outs, lastEval, mc, nzArgs, status, iv, re3>>

NextMfb ==
    \E d \in 1..MaxDim, e \in ResolutionKinds, c \in CostKinds,
       levels \in SeqsUpTo(MfbLevels, 2) :
        MfbNew(ModifiedRastrigin_new(d), e, c, levels)

SpecMfb == InitInterval /\ [][NextMfb]_vars

---------------------------------------------------------------------------
(* The decay of ResolutionError1, ResolutionError3 and ResolutionError4    *)
(* (src/src/mfb.rs): each is applied at two fidelity levels lo < hi        *)

FpAbs(x) == [x EXCEPT !.neg = FALSE]

\* ResolutionError1::theta = 1.0 - 0.0001 * phi
ResolutionError1_theta(phi) == FpSub(F64_1_0, FpMul(F64_0_0001, FpPhi(phi)))

\* ResolutionError4::new(global_minimum)
ResolutionError4_new(global_minimum) == [global_minimum |-> global_minimum]

\* ResolutionError4::theta = 1.0 - 0.0001 * phi
ResolutionError4_theta(phi) == FpSub(F64_1_0, FpMul(F64_0_0001, FpPhi(phi)))

\* ResolutionError4::psi = 1.0 - (x - self.global_minimum).abs()
ResolutionError4_psi(this, x) == FpSub(F64_1_0, FpAbs(FpSub(x, this.global_minimum)))

DecayKinds == {"ResolutionError1", "ResolutionError3", "ResolutionError4"}

\* theta of the three variants (ResolutionError3 within its range)
Resolution_theta(kind, phi) ==
    CASE kind = "ResolutionError1" -> ResolutionError1_theta(phi)
      [] kind = "ResolutionError3" -> ResolutionError3_theta(phi).value
      [] kind = "ResolutionError4" -> ResolutionError4_theta(phi)

\* a = theta(phi), and theta(phi) * psi(x) in ResolutionError4
Resolution_a(kind, this, x, phi) ==
    IF kind = "ResolutionError4"
    THEN FpMul(ResolutionError4_theta(phi), ResolutionError4_psi(this, x))
    ELSE Resolution_theta(kind, phi)

\* w = 10.0 * PI * theta(phi)
Resolution_w(kind, phi) == FpMul(FpMul(F64_10_0, PI), Resolution_theta(kind, phi))

\* b = 0.5 * PI * theta(phi)
Resolution_b(kind, phi) == FpMul(FpMul(F64_0_5, PI), Resolution_theta(kind, phi))

\* the fidelity levels of the conventional range among those tried
DecayPhis == {phi \in PhiSamples : F64Le(Level(0), phi) /\ F64Lt(phi, Level(10000))}

\* the coordinates tried: -1.0, 0.5 and 1.0, with the global minimum 0.5
DecayXs == {FpOf(-1, 0), FpOf(1, -1), FpOf(1, 0)}
GlobalMinima == {FpOf(1, -1)}

Resolution_apply(op, kind, this, x, phi) ==
    CASE op = "theta" -> Resolution_theta(kind, phi)
      [] op = "a" -> Resolution_a(kind, this, x, phi)
      [] op = "w" -> Resolution_w(kind, phi)
      [] op = "b" -> Resolution_b(kind, phi)

\* the calls tried: only a of ResolutionError4 reads the coordinate
DecayCalls ==
    {<<op, kind, this, x, phi>> :
        op \in {"theta", "a", "w", "b"}, kind \in DecayKinds,
        this \in {ResolutionError4_new(g) : g \in GlobalMinima},
        x \in DecayXs, phi \in DecayPhis}

DecayKey(c) ==
    IF c[1] = "a" /\ c[2] = "ResolutionError4" THEN c
    ELSE <<c[1], c[2], c[3], FpZero, c[5]>>

\* the result of every call tried, computed once
DecayTable ==
    {<<c, Resolution_apply(c[1], c[2], c[3], c[4], c[5])>> :
        c \in {DecayKey(d) : d \in DecayCalls}}

DecayResult(op, kind, this, x, phi) ==
    (CHOOSE t \in DecayTable : t[1] = DecayKey(<<op, kind, this, x, phi>>))[2]

\* the pairs of fidelity levels lo < hi
DecayPairs == {p \in DecayPhis \X DecayPhis : F64Lt(p[1], p[2])}

\* the inputs: a variant, a coordinate and two fidelity levels lo < hi
InitDecay ==
    /\ build = "checked"
    /\ obj = TwoFidelity_new("CurrinExponential", TEN)
    /\ outs = <<>>
    /\ lastEval = None
    /\ mc = [closed |-> None, dflt |-> None]
    /\ nzArgs = {}
    /\ status = "running"
    /\ iv = Idle
    /\ re3 = Idle
    /\ em \in {Some([x |-> x, kind |-> k, this |-> ResolutionError4_new(g),
                     call |-> "", lo |-> p[1], hi |-> p[2],
                     at_lo |-> FpZero, at_hi |-> FpZero]) :
                  k \in DecayKinds, g \in GlobalMinima, x \in DecayXs,
                  p \in DecayPairs}

\* the operation op applied at lo and at hi
Decay(op) ==
    /\ status = "running"
    /\ em[1].call = ""
    /\ em' = Some([em[1] EXCEPT
                      !.call = op,
                      !.at_lo = DecayResult(op, em[1].kind, em[1].this, em[1].x, em[1].lo),
                      !.at_hi = DecayResult(op, em[1].kind, em[1].this, em[1].x, em[1].hi)])
    /\ UNCHANGED <<build, obj, outs, lastEval, mc, nzArgs, status, iv, re3>>

DecayTheta == Decay("theta")
DecayA == Decay("a")
DecayW == Decay("w")
DecayB == Decay("b")

NextDecay == DecayTheta \/ DecayA \/ DecayW \/ DecayB

SpecDecay == InitDecay /\ [][NextDecay]_vars

---------------------------------------------------------------------------
(* The claims *)

IsSome(r) == r # None
Costs(hist) == [k \in 1..Len(hist) |-> IF IsSome(hist[k]) THEN hist[k][1].cost ELSE Zero64]

RECURSIVE GeometricFrom(_, _, _, _)
GeometricFrom(c, seq, ovf, n) ==
    IF Len(seq) >= n THEN [seq |-> seq, ovf |-> ovf]
    ELSE LET p == Mul64(seq[Len(seq)], c)
         IN GeometricFrom(c, Append(seq, p.val), ovf \/ p.ovf, n)

\* c^0, c^1, ..., c^(n-1) by repeated multiplication, and whether a product
\* left the 64 bits
GeometricTable ==
    {<<c, n, GeometricFrom(c, <<U64(1)>>, FALSE, n)>> :
        c \in CostFactors, n \in 1..MaxFidelity}

Geometric(c, n) == (CHOOSE t \in GeometricTable : t[1] = c /\ t[2] = n)[3]

\* the Outputs has been pulled until it returned no element
FullyPulled(o) == Len(o.hist) > 0 /\ o.hist[Len(o.hist)] = None

\* C1: a fully pulled Outputs of Hartmann3d/Hartmann6d with max_fidelity M and
\* cost_factor c (c^(M-1) within 64 bits) has given exactly M pairs, first,
\* with the costs c^0, c^1, ..., c^(M-1) in order; Hartmann3d with M = 3 and
\* c = 10 gives the costs 1, 10, 100
C1_HartmannCosts ==
    \A i \in DOMAIN outs :
        LET o == outs[i]
            M == o.this.max_fidelity
            g == Geometric(o.this.cost_factor, M)
        IN (o.iter = "map" /\ FullyPulled(o) /\ ~g.ovf) =>
              /\ Len(o.hist) > M
              /\ \A k \in 1..Len(o.hist) : IsSome(o.hist[k]) <=> k <= M
              /\ SubSeq(Costs(o.hist), 1, M) = g.seq
              /\ (o.this = Hartmann_new("Hartmann3d", 3, TEN) =>
                    SubSeq(Costs(o.hist), 1, 3) = <<U64(1), U64(10), U64(100)>>)

C1_Witness ==
    \E i \in DOMAIN outs :
        /\ outs[i].this = Hartmann_new("Hartmann3d", 3, TEN)
        /\ FullyPulled(outs[i])
        /\ SubSeq(Costs(outs[i].hist), 1, 3) = <<U64(1), U64(10), U64(100)>>

\* C2: whenever the function's own max_cost() and the trait's default
\* max_cost (the last cost of a full drain at the minimum corner) have both
\* returned, they returned the same cost
C2_ClosedFormIsDefault ==
    (IsSome(mc.closed) /\ IsSome(mc.dflt)) => mc.closed = mc.dflt

\* C3: the Outputs of CurrinExponential, Park and Borehole gives two pairs,
\* the first with cost 1 and the second with cost cost_factor
C3_TwoFidelityCosts ==
    \A i \in DOMAIN outs :
        LET o == outs[i]
        IN o.iter = "chain" =>
              /\ (Len(o.hist) >= 1 => o.hist[1] # None /\ o.hist[1][1].cost = U64(1))
              /\ (Len(o.hist) >= 2 =>
                    o.hist[2] # None /\ o.hist[2][1].cost = o.this.cost_factor)
              /\ \A k \in 3..Len(o.hist) : o.hist[k] = None

\* C4: the costs of the pairs one Outputs has given are non-decreasing in
\* the order they were pulled
C4_CostsNonDecreasing ==
    \A i \in DOMAIN outs :
        \A j, k \in 1..Len(outs[i].hist) :
            (j < k /\ IsSome(outs[i].hist[j]) /\ IsSome(outs[i].hist[k])) =>
                U64Le(outs[i].hist[j][1].cost, outs[i].hist[k][1].cost)

\* C5: NonZeroU64::new_unchecked is never given 0, and no cost given by an
\* Outputs or returned by max_cost() is 0
C5_CostsNonZero ==
    /\ Zero64 \notin nzArgs
    /\ mc.closed # Some(Zero64)
    /\ mc.dflt # Some(Zero64)
    /\ \A i \in DOMAIN outs :
          \A k \in 1..Len(outs[i].hist) :
              IsSome(outs[i].hist[k]) => outs[i].hist[k][1].cost # Zero64

C7_Lazy ==
    \A i \in DOMAIN outs : Len(outs[i].evals) <= outs[i].start

\* C8: an evaluate call with a point whose length is not the dimension fails
\* at the call, and no Outputs made from such a point ever gives a pair
C8_DimensionChecked ==
    /\ (lastEval # None /\ Len(lastEval[1].xs) # dimension(obj)) =>
          (~lastEval[1].returned /\ status = "panicked")
    /\ \A i \in DOMAIN outs :
          Len(outs[i].xs) # dimension(obj) =>
              \A k \in 1..Len(outs[i].hist) : outs[i].hist[k] = None

\* C9, as claimed: Interval::new(min, max) returns an interval exactly when
\* min <= max and the absent result exactly when min > max, and the interval
\* it returns gives back the bounds, with min() <= max()
C9_AsClaimed ==
    iv # Idle =>
        LET c == iv[1]
        IN /\ IsSome(c.result) <=> F64Le(c.min, c.max)
           /\ c.result = None <=> F64Lt(c.max, c.min)
           /\ IsSome(c.result) =>
                 /\ Interval_min(c.result[1]) = c.min
                 /\ Interval_max(c.result[1]) = c.max
                 /\ F64Le(Interval_min(c.result[1]), Interval_max(c.result[1]))

\* C9, amended: Interval::new(min, max) returns an interval exactly when
\* min <= max and the absent result exactly when min > max or one of the
\* bounds is NaN, and the interval it returns gives back the bounds, with
\* min() <= max()
C9_IntervalNew ==
    iv # Idle =>
        LET c == iv[1]
        IN /\ IsSome(c.result) <=> (~c.min.nan /\ ~c.max.nan /\ c.min.v <= c.max.v)
           /\ c.result = None <=> (c.min.nan \/ c.max.nan \/ c.min.v > c.max.v)
           /\ IsSome(c.result) =>
                 /\ Interval_min(c.result[1]) = c.min
                 /\ Interval_max(c.result[1]) = c.max
                 /\ F64Le(Interval_min(c.result[1]), Interval_max(c.result[1]))

C9_Witness ==
    /\ iv # Idle
    /\ iv[1].min = iv[1].max
    /\ ~iv[1].min.nan
    /\ IsSome(iv[1].result)

OutOfRange(phi) == F64Lt(phi, Level(0)) \/ F64Le(Level(10000), phi)
InRange(phi) == F64Le(Level(0), phi) /\ F64Lt(phi, Level(10000))

\* C10, as claimed: for phi < 0 or phi >= 10000 the calls theta, a, w, b and
\* error of ResolutionError3 fail, and for 0 <= phi < 10000 they return
C10_AsClaimed ==
    re3 # Idle =>
        /\ OutOfRange(re3[1].phi) => re3[1].result.panic
        /\ InRange(re3[1].phi) => ~re3[1].result.panic

\* C10, amended: for phi < 0 or phi >= 10000 the calls theta, a, w and b of
\* ResolutionError3 fail, and so does error on a point with at least one
\* coordinate; for 0 <= phi < 10000 all of them return; error on the empty
\* point returns for every phi
C10_ThetaRange ==
    re3 # Idle =>
        LET c == re3[1]
            empty == c.call = "error" /\ Len(c.xs) = 0
        IN /\ (OutOfRange(c.phi) /\ ~empty) => (c.result.panic /\ status = "panicked")
           /\ InRange(c.phi) => ~c.result.panic
           /\ empty => ~c.result.panic

C10_Witness ==
    /\ re3 # Idle
    /\ re3[1].call = "error"
    /\ Len(re3[1].xs) > 0
    /\ F64Le(Level(10000), re3[1].phi)
    /\ re3[1].result.panic
    /\ status = "panicked"

\* a call of ResolutionError3::theta with lo <= phi < hi has returned
ThetaCalledIn(lo, hi) ==
    /\ re3 # Idle
    /\ re3[1].call = "theta"
    /\ F64Le(Level(lo), re3[1].phi)
    /\ F64Lt(re3[1].phi, Level(hi))
    /\ ~re3[1].result.panic

\* C11, as claimed: for every phi in [6000, 7000), theta(phi) of
\* ResolutionError3 is 0.4
C11_AsClaimed ==
    ThetaCalledIn(6000, 7000) => re3[1].result.value = F64_0_4

\* C11, amended: theta(phi) of ResolutionError3 is 0.4 for every phi in
\* [5000, 6000); for phi in [6000, 7000) it is never 0.4: at 6000 it is the
\* f64 1.6 - 0.0002 * 6000, just above 0.4, and beyond 6000 it lies strictly
\* between 0.2 and 0.4
C11_Theta04 ==
    /\ ThetaCalledIn(5000, 6000) => re3[1].result.value = F64_0_4
    /\ ThetaCalledIn(6000, 7000) =>
          LET v == re3[1].result.value
          IN /\ v # F64_0_4
             /\ FpLt(F64_0_2, v)
             /\ IF re3[1].phi = Level(6000)
                 THEN /\ v = FpSub(F64_1_6, FpMul(F64_0_0002, FpOf(6000, 0)))
                      /\ FpLt(F64_0_4, v)
                 ELSE FpLt(v, F64_0_4)

C11_Witness ==
    /\ ThetaCalledIn(5000, 6000)
    /\ F64Lt(Level(5000), re3[1].phi)
    /\ re3[1].result.value = F64_0_4

\* C12: a call of InstabilityError1/2::error whose generator gave r returns
\* the lump penalty 10 * len(xs) exactly when r is below p(phi), and 0
\* otherwise; so where p(phi) = 0 (InstabilityError1 at phi = 10000) it
\* returns 0 whatever the generator gave
C12_LumpBelowThreshold ==
    (em # Idle /\ em[1].call \in InstabilityKinds) =>
        LET c == em[1]
            p == InstabilityError_p(c.call, c.phi)
        IN /\ c.result = IF FpLt(c.r, p) THEN FpOf(10 * Len(c.xs), 0) ELSE FpZero
           /\ p = FpZero => c.result = FpZero

\* C13: LinearCost::cost and NonLinearCost::cost return a cost that is not
\* zero for every fidelity level phi with 0 <= phi < 10000
C13_CostPositive ==
    (em # Idle /\ em[1].call \in CostKinds /\ InRange(em[1].phi)) =>
        em[1].result # Zero64

\* C14: an Mfb built from an objective, a resolution error model, a cost
\* model and a list of fidelity levels can be evaluated at a point (and the
\* evaluation gives one pair per level of the list): the Mfb has the
\* operation evaluate
C14_MfbEvaluates ==
    (em # Idle /\ em[1].call = "Mfb::new") => "evaluate" \in em[1].methods

\* C15: no pair given by an Outputs of the function costs more than what
\* the function's max_cost() returned
C15_MaxCostBounds ==
    IsSome(mc.closed) =>
        \A i \in DOMAIN outs :
            \A k \in 1..Len(outs[i].hist) :
                IsSome(outs[i].hist[k]) => U64Le(outs[i].hist[k][1].cost, mc.closed[1])

\* the first n elements of h and g are the same
SamePrefix(h, g, n) == \A k \in 1..n : h[k] = g[k]

Shorter(h, g) == IF Len(h) < Len(g) THEN Len(h) ELSE Len(g)

C17_TiersInRange ==
    \A i \in DOMAIN outs :
        LET o == outs[i]
            M == o.this.max_fidelity
        IN (o.iter = "map" /\ Readable(o.xs, dimension(o.this))) =>
              /\ Len(o.evals) = o.start
              /\ o.start <= M
              /\ \A k \in 1..Len(o.evals) :
                    /\ o.evals[k].fn = "f"
                    /\ o.evals[k].m = k
                    /\ o.evals[k].mult = M - k
                    /\ o.evals[k].mult >= 0
              /\ \A k \in 2..Len(o.evals) : o.evals[k].mult < o.evals[k - 1].mult
              /\ (Len(o.evals) >= 1 => o.evals[1].mult = M - 1)
              /\ (o.start = M => Len(o.evals) = M /\ o.evals[M].mult = 0)

C17_Witness ==
    \E i \in DOMAIN outs :
        /\ outs[i].this.max_fidelity = U8_MAX
        /\ FullyPulled(outs[i])
        /\ Len(outs[i].evals) = U8_MAX
        /\ outs[i].evals[1].mult = U8_MAX - 1
        /\ outs[i].evals[U8_MAX].m = U8_MAX
        /\ outs[i].evals[U8_MAX].mult = 0

\* an operation of a resolution error has been applied at lo < hi
Decayed(ops) == em # Idle /\ em[1].call \in ops

\* C18: for ResolutionError1, ResolutionError3 and ResolutionError4 and
\* fidelity levels 0 <= lo < hi < 10000, theta lies in [0, 1] at both and
\* theta(hi) <= theta(lo), and a, w and b are no larger (in magnitude) at hi
\* than at lo
C18_Decay ==
    /\ Decayed({"theta"}) =>
          /\ FpLe(FpZero, em[1].at_lo) /\ FpLe(em[1].at_lo, F64_1_0)
          /\ FpLe(FpZero, em[1].at_hi) /\ FpLe(em[1].at_hi, F64_1_0)
          /\ FpLe(em[1].at_hi, em[1].at_lo)
    /\ Decayed({"a", "w", "b"}) =>
          FpLe(FpAbs(em[1].at_hi), FpAbs(em[1].at_lo))

====
